---- MODULE Spec2Model ----
(***************************************************************************)
(* Model of the hyperlink harvester: script/extract_links.py (the sidebar  *)
(* extractor) and script/scrape_links.py (the general scraper).            *)
(*                                                                         *)
(* A URL or href is a sequence of tokens; every token stands for a literal *)
(* piece of text, so that concatenating the tokens gives the string:       *)
(*   "http:" "https:" "ftp:" "mailto:" "data:"  a scheme and its colon     *)
(*   "/"                                         one slash                 *)
(*   "a" "b" "."                                 name and dot characters   *)
(*   ";p" "?q" "#f"        a delimiter (; ? #) followed by one character   *)
(* urlparse/urljoin/urlunparse (urllib.parse) are modelled on these token  *)
(* sequences as parsers and printers.                                      *)
(***************************************************************************)
EXTENDS Integers, Sequences, FiniteSets, TLC

\* ------------------------------------------------------------------ bounds
MaxTail == 3
MaxSlashes == 2
MaxElems == 2
MaxRuns == 2
FewLinks == 5

\* ------------------------------------------------------- text primitives
None == <<"<None>">>

SchemeToks == {"http:", "https:", "ftp:", "mailto:", "data:"}
uses_relative == {"", "ftp:", "http:", "https:"}
uses_netloc == {"", "ftp:", "http:", "https:"}
uses_params == {"", "ftp:", "http:", "https:"}

Take(s, n) == SubSeq(s, 1, n)
Drop(s, n) == SubSeq(s, n + 1, Len(s))

\* str.find for a set of characters: first position holding one, 0 if none
Find(s, T) ==
  IF \E i \in 1..Len(s) : s[i] \in T
  THEN CHOOSE i \in 1..Len(s) : s[i] \in T /\ \A j \in 1..(i - 1) : s[j] \notin T
  ELSE 0

\* str.rfind: last position holding the character, 0 if none
RFind(s, T) ==
  IF \E i \in 1..Len(s) : s[i] \in T
  THEN CHOOSE i \in 1..Len(s) : s[i] \in T /\ \A j \in (i + 1)..Len(s) : s[j] \notin T
  ELSE 0

StartsWith(s, p) == Len(s) >= Len(p) /\ Take(s, Len(p)) = p

RECURSIVE RStripSlash(_)
RStripSlash(s) ==
  IF s # <<>> /\ s[Len(s)] = "/" THEN RStripSlash(Take(s, Len(s) - 1)) ELSE s

\* str.split('/'): the sequence of segments between slashes
RECURSIVE SplitSlash(_)
SplitSlash(s) ==
  LET i == Find(s, {"/"})
  IN IF i = 0 THEN <<s>> ELSE <<Take(s, i - 1)>> \o SplitSlash(Drop(s, i))

\* '/'.join(segments)
RECURSIVE JoinSlash(_)
JoinSlash(segs) ==
  IF segs = <<>> THEN <<>>
  ELSE IF Len(segs) = 1 THEN segs[1]
  ELSE segs[1] \o <<"/">> \o JoinSlash(Tail(segs))

\* ------------------------------------------------------------ urllib.parse
\* the scheme of a URL and what follows its colon; the default scheme if none
SplitScheme(url, scheme) ==
  IF url # <<>> /\ url[1] \in SchemeToks THEN <<url[1], Tail(url)>>
  ELSE <<scheme, url>>

\* _splitnetloc: after a leading //, the netloc runs to the first / ? or #
SplitNetloc(u) ==
  IF ~StartsWith(u, <<"/", "/">>) THEN <<<<>>, u>>
  ELSE LET delim == Find(Drop(u, 2), {"/", "?q", "#f"})
       IN IF delim = 0 THEN <<Drop(u, 2), <<>>>>
          ELSE <<SubSeq(u, 3, delim + 1), Drop(u, delim + 1)>>

\* str.split(c, 1) at the first delimiter of T: <<before, from the delimiter>>
SplitAt(u, T) ==
  LET i == Find(u, T)
  IN IF i = 0 THEN <<u, <<>>>> ELSE <<Take(u, i - 1), Drop(u, i - 1)>>

\* the fragment is cut off first, then the query
SplitQueryFragment(sch, netloc, f) ==
  [scheme |-> sch, netloc |-> netloc, path |-> SplitAt(f[1], {"?q"})[1],
   query |-> SplitAt(f[1], {"?q"})[2], fragment |-> f[2]]

SplitRest(sch, n) == SplitQueryFragment(sch, n[1], SplitAt(n[2], {"#f"}))

SplitAfterScheme(s) == SplitRest(s[1], SplitNetloc(s[2]))

\* urlsplit(url, scheme): scheme, netloc, path, query, fragment
urlsplit(url, scheme) == SplitAfterScheme(SplitScheme(url, scheme))

\* _splitparams(url): <<path, params>>
splitparams(url) ==
  LET sl == RFind(url, {"/"})
      i == Find(Drop(url, sl), {";p"})
  IN IF i = 0 THEN <<url, <<>>>>
     ELSE <<Take(url, sl + i - 1), Drop(url, sl + i - 1)>>

\* the params of the last path segment, for the schemes that have them
WithParams(r, sp) ==
  [scheme |-> r.scheme, netloc |-> r.netloc, path |-> sp[1],
   params |-> sp[2], query |-> r.query, fragment |-> r.fragment]

ParseParams(r) ==
  WithParams(r, IF r.scheme \in uses_params /\ Find(r.path, {";p"}) # 0
                THEN splitparams(r.path) ELSE <<r.path, <<>>>>)

\* urlparse(url, scheme): urlsplit plus the params
urlparse(url, scheme) == ParseParams(urlsplit(url, scheme))

\* urlunsplit: the // of the netloc, then scheme, query and fragment
Unsplit(scheme, netloc, u0, query, fragment) ==
  (IF scheme # "" THEN <<scheme>> ELSE <<>>)
  \o (IF netloc # <<>> \/ (scheme # "" /\ scheme \in uses_netloc
                            /\ ~StartsWith(u0, <<"/", "/">>))
      THEN <<"/", "/">> \o netloc
           \o (IF u0 # <<>> /\ u0[1] # "/" THEN <<"/">> ELSE <<>>) \o u0
      ELSE u0)
  \o query \o fragment

\* urlunparse((scheme, netloc, path, params, query, fragment))
urlunparse(scheme, netloc, path, params, query, fragment) ==
  Unsplit(scheme, netloc, path \o params, query, fragment)

\* the dot-segment loop of urljoin
RECURSIVE ResolveSegments(_, _)
ResolveSegments(segments, resolved) ==
  IF segments = <<>> THEN resolved
  ELSE IF Head(segments) = <<".", ".">>
  THEN ResolveSegments(Tail(segments),
         IF resolved = <<>> THEN resolved
         ELSE Take(resolved, Len(resolved) - 1))
  ELSE IF Head(segments) = <<".">>
  THEN ResolveSegments(Tail(segments), resolved)
  ELSE ResolveSegments(Tail(segments), Append(resolved, Head(segments)))

\* segments[1:-1] = filter(None, segments[1:-1])
FilterInner(segments) ==
  IF Len(segments) <= 2 THEN segments
  ELSE <<segments[1]>>
       \o SelectSeq(SubSeq(segments, 2, Len(segments) - 1), LAMBDA x : x # <<>>)
       \o <<segments[Len(segments)]>>

\* base_parts: the base path without its last segment unless that is empty
BaseParts(bp) == IF bp[Len(bp)] # <<>> THEN Take(bp, Len(bp) - 1) ELSE bp

\* the segments to resolve
JoinSegments(bpath, path) ==
  IF path # <<>> /\ path[1] = "/" THEN SplitSlash(path)
  ELSE FilterInner(BaseParts(SplitSlash(bpath)) \o SplitSlash(path))

\* the resolved list, with '' appended when the last segment was . or ..
ResolvedPath(segments) ==
  ResolveSegments(segments, <<>>)
  \o (IF segments[Len(segments)] \in {<<".">>, <<".", ".">>}
      THEN <<<<>>>> ELSE <<>>)

\* '/'.join(resolved_path) or '/'
JoinedOrRoot(joined) == IF joined = <<>> THEN <<"/">> ELSE joined

\* urljoin once both URLs are parsed
JoinParsed(url, b, u) ==
  IF u.scheme # b.scheme \/ u.scheme \notin uses_relative THEN url
  ELSE IF u.scheme \in uses_netloc /\ u.netloc # <<>>
  THEN urlunparse(u.scheme, u.netloc, u.path, u.params, u.query, u.fragment)
  ELSE IF u.path = <<>> /\ u.params = <<>>
  THEN urlunparse(u.scheme,
                  IF u.scheme \in uses_netloc THEN b.netloc ELSE u.netloc,
                  b.path, b.params,
                  IF u.query = <<>> THEN b.query ELSE u.query, u.fragment)
  ELSE urlunparse(u.scheme,
                  IF u.scheme \in uses_netloc THEN b.netloc ELSE u.netloc,
                  JoinedOrRoot(JoinSlash(ResolvedPath(JoinSegments(b.path, u.path)))),
                  u.params, u.query, u.fragment)

JoinOnBase(url, b) == JoinParsed(url, b, urlparse(url, b.scheme))

urljoin(base, url) ==
  IF base = <<>> THEN url
  ELSE IF url = <<>> THEN base
  ELSE JoinOnBase(url, urlparse(base, ""))

\* ------------------------------------------------------------ the two tools
Extract == "extract_links"
Scrape == "scrape_links"
Tools == {Extract, Scrape}

Truthy(s) == s # None /\ s # <<>>

\* path = parsed.path.rstrip('/') if parsed.path != '/' else '/'
StripTrailingSlash(path) ==
  IF path # <<"/">> THEN RStripSlash(path) ELSE <<"/">>

\* extract_links.py normalize_url, from the parsed absolute URL on
NormalizeParsedExtract(parsed, target_parsed) ==
  IF parsed.netloc # target_parsed.netloc THEN None
  ELSE urlunparse("https:", parsed.netloc, StripTrailingSlash(parsed.path),
                  <<>>, parsed.query, <<>>)

\* extract_links.py normalize_url(href, base_url, target_origin)
normalize_url_extract(href, base_url, target_origin) ==
  IF href = <<>> \/ href[1] \in {"mailto:", "tel:", "javascript:"} THEN None
  ELSE IF href[1] = "#f" THEN None
  ELSE NormalizeParsedExtract(urlparse(urljoin(base_url, href), ""),
                              urlparse(target_origin, ""))

\* scrape_links.py normalize_url, from the parsed absolute URL on
NormalizeParsedScrape(parsed, strip_fragments) ==
  IF parsed.scheme \notin {"http:", "https:"} THEN None
  ELSE urlunparse(parsed.scheme, parsed.netloc,
                  StripTrailingSlash(parsed.path), <<>>, parsed.query,
                  IF strip_fragments THEN <<>> ELSE parsed.fragment)

\* scrape_links.py normalize_url(href, base_url, strip_fragments)
normalize_url_scrape(href, base_url, strip_fragments) ==
  IF href = <<>> \/ href[1] \in {"mailto:", "tel:", "javascript:", "data:"}
  THEN None
  ELSE IF href[1] = "#f" THEN None
  ELSE NormalizeParsedScrape(urlparse(urljoin(base_url, href), ""),
                             strip_fragments)

\* target_origin = f"{parsed_start.scheme}://{parsed_start.netloc}"
OriginOf(parsed_start) ==
  <<parsed_start.scheme, "/", "/">> \o parsed_start.netloc

TargetOrigin(start_url) == OriginOf(urlparse(start_url, ""))

\* normalize_url as each tool calls it for the page at start_url
NormalizeFor(t, href, start_url, strip_fragments) ==
  IF t = Extract
  THEN normalize_url_extract(href, start_url, TargetOrigin(start_url))
  ELSE normalize_url_scrape(href, start_url, strip_fragments)

\* scrape_links.py is_internal_url(url, base_url)
is_internal_url(url, base_url) ==
  urlparse(url, "").netloc = urlparse(base_url, "").netloc

\* ------------------------------------------------------------ input sets
TailToks == {"/", "a", ".", ";p", "?q", "#f"}

RECURSIVE SeqsUpTo(_, _)
SeqsUpTo(S, n) ==
  IF n = 0 THEN {<<>>}
  ELSE LET shorter == SeqsUpTo(S, n - 1)
       IN shorter \cup {Append(s, x) : s \in shorter, x \in S}

SchemeHeads == {<<>>} \cup {<<s>> : s \in SchemeToks}
Authorities == {<<>>, <<"/", "/", "a">>, <<"/", "/", "b">>}
Hrefs == {h \o au \o t : h \in SchemeHeads, au \in Authorities,
                          t \in SeqsUpTo(TailToks, MaxTail)}

\* pages the tools can have fetched: http(s) URLs with a host
Bases == { <<"https:", "/", "/", "a", "/", "a", "/", "a">>,
           <<"https:", "/", "/", "a">>,
           <<"http:", "/", "/", "a", "/", "a", "/">> }

RECURSIVE Slashes(_)
Slashes(k) == IF k = 0 THEN <<>> ELSE <<"/">> \o Slashes(k - 1)

\* href with the slashes that end its path part replaced by k slashes
SlashVariant(h, n) ==
  RStripSlash(SplitAt(h, {"?q", "#f"})[1]) \o Slashes(n)
  \o SplitAt(h, {"?q", "#f"})[2]

\* ------------------------------------------------------------- documents
\* A parsed page is the sequence of its nav/aside/div/ul elements in document
\* order; an element is known by its position.  An element records what the
\* selectors and the text tests read: tag, aria-label, role, whether an
\* ancestor is an aside / has class sidebar / has id sidebar, the id-class
\* pattern of the element itself, which phrases its lower-cased text holds,
\* and its anchors.  Anchors are kept as runs: reps consecutive <a href>
\* elements with the same href and text.
Anchor(h, t, n) == [href |-> h, text |-> t, reps |-> n]

Element(tg, ar, ro, ia, isc, isi, ic, otp, toc, nav, an) ==
  [tag |-> tg, aria |-> ar, role |-> ro, in_aside |-> ia,
   in_sidebar_class |-> isc, in_sidebar_id |-> isi, idclass |-> ic,
   on_this_page |-> otp, table_of_contents |-> toc, navigation |-> nav,
   anchors |-> an]

\* selector_strategies, in priority order
selector_strategies(t) ==
  IF t = Extract
  THEN <<"nav[aria-label=Navigation]", "nav[role=navigation]", "aside nav">>
  ELSE <<"nav[aria-label=Navigation]", "nav[aria-label*=navigation i]",
         "nav[role=navigation]", "aside nav", ".sidebar nav", "#sidebar nav">>

\* whether a CSS selector of the list matches an element
Selects(selector, el) ==
  /\ el.tag = "nav"
  /\ CASE selector = "nav[aria-label=Navigation]" -> el.aria = "Navigation"
       [] selector = "nav[aria-label*=navigation i]" ->
            el.aria \in {"Navigation", "Site navigation"}
       [] selector = "nav[role=navigation]" -> el.role = "navigation"
       [] selector = "aside nav" -> el.in_aside
       [] selector = ".sidebar nav" -> el.in_sidebar_class
       [] selector = "#sidebar nav" -> el.in_sidebar_id
       [] OTHER -> FALSE

\* soup.select(selector): the matching elements in document order
soup_select(doc, selector) ==
  SelectSeq([i \in 1..Len(doc) |-> i], LAMBDA i : Selects(selector, doc[i]))

\* for el in elements: candidates.append((el, description, 0))
SelectStep(cands, doc, selector) ==
  LET elements == soup_select(doc, selector)
  IN cands \o [j \in 1..Len(elements) |->
                 [el |-> elements[j], reason |-> selector, score |-> 0]]

\* the id/class substring test of the second scan
ScanMatches(t, el) ==
  /\ el.tag \in {"nav", "aside", "div", "ul"}
  /\ \/ el.idclass = "sidebar"
     \/ el.idclass = (IF t = Extract THEN "md-nav" ELSE "sidenav")
     \/ el.idclass = "site-nav"

\* tag not in [c[0] for c in candidates]: list membership compares the
\* elements with ==, which bs4 defines on name, attributes and contents
ScanStep(cands, doc, i, t) ==
  IF /\ ScanMatches(t, doc[i])
     /\ ~\E c \in 1..Len(cands) : doc[cands[c].el] = doc[i]
  THEN Append(cands, [el |-> i, reason |-> "pattern", score |-> 0])
  ELSE cands

\* whether count_internal_links counts a link with this normalized URL
Counted(t, n, base_url) ==
  IF t = Extract THEN Truthy(n) ELSE Truthy(n) /\ is_internal_url(n, base_url)

\* count_internal_links of each tool
RECURSIVE count_internal_links(_, _, _)
count_internal_links(t, anchors, base_url) ==
  IF anchors = <<>> THEN 0
  ELSE (IF Counted(t, NormalizeFor(t, Head(anchors).href, base_url, TRUE),
                   base_url)
        THEN Head(anchors).reps ELSE 0)
       + count_internal_links(t, Tail(anchors), base_url)

NAV_BONUS == 100

\* a slip in the exclusion test: the word "navigation" rescues the candidate
ExcludedUnlessNavigation(t, el) ==
  (el.on_this_page \/ (t = Scrape /\ el.table_of_contents)) /\ ~el.navigation

\* the exclusion test on element_text
Excluded(t, el) ==
  el.on_this_page \/ (t = Scrape /\ el.table_of_contents)

\* the score of a candidate that is not excluded
ScoreOf(t, el, base_url) ==
  (IF el.navigation THEN NAV_BONUS ELSE 0)
  + count_internal_links(t, el.anchors, base_url)

\* one iteration of the filter-and-score loop
ScoreStep(scored, cand, doc, t, base_url) ==
  IF Excluded(t, doc[cand.el]) THEN scored
  ELSE Append(scored, [el |-> cand.el, reason |-> cand.reason,
                       score |-> ScoreOf(t, doc[cand.el], base_url)])

\* a slip in the sort: among equal scores the later candidate goes first
RECURSIVE InsertDescUnstable(_, _)
InsertDescUnstable(sorted, x) ==
  IF sorted = <<>> THEN <<x>>
  ELSE IF Head(sorted).score > x.score
       THEN <<Head(sorted)>> \o InsertDescUnstable(Tail(sorted), x)
       ELSE <<x>> \o sorted

\* list.sort(key=score, reverse=True): stable, descending
RECURSIVE InsertDesc(_, _)
InsertDesc(sorted, x) ==
  IF sorted = <<>> THEN <<x>>
  ELSE IF Head(sorted).score >= x.score
       THEN <<Head(sorted)>> \o InsertDesc(Tail(sorted), x)
       ELSE <<x>> \o sorted

RECURSIVE SortDesc(_)
SortDesc(s) ==
  IF s = <<>> THEN <<>>
  ELSE InsertDesc(SortDesc(Take(s, Len(s) - 1)), s[Len(s)])

\* find_sidebar_container as a whole: the four loops and the final pick;
\* 0 stands for None, otherwise the position of the chosen element
RECURSIVE SelectAll(_, _, _, _)
SelectAll(cands, doc, strategies, n) ==
  IF n > Len(strategies) THEN cands
  ELSE SelectAll(SelectStep(cands, doc, strategies[n]), doc, strategies, n + 1)

RECURSIVE ScanAll(_, _, _, _)
ScanAll(cands, doc, i, t) ==
  IF i > Len(doc) THEN cands
  ELSE ScanAll(ScanStep(cands, doc, i, t), doc, i + 1, t)

RECURSIVE ScoreAll(_, _, _, _, _, _)
ScoreAll(scored, cands, n, doc, t, base_url) ==
  IF n > Len(cands) THEN scored
  ELSE ScoreAll(ScoreStep(scored, cands[n], doc, t, base_url),
                cands, n + 1, doc, t, base_url)

FindCandidates(doc, t) ==
  ScanAll(SelectAll(<<>>, doc, selector_strategies(t), 1), doc, 1, t)

PickBest(scored) == IF scored = <<>> THEN 0 ELSE SortDesc(scored)[1].el

SelectSidebar(cands, doc, t, base_url) ==
  IF cands = <<>> THEN 0
  ELSE PickBest(ScoreAll(<<>>, cands, 1, doc, t, base_url))

find_sidebar_container(doc, t, base_url) ==
  SelectSidebar(FindCandidates(doc, t), doc, t, base_url)

\* ------------------------------------------------------ the extraction loop
\* the search container: the whole soup, one element, or None
Soup == [kind |-> "soup", el |-> 0]
TagAt(i) == [kind |-> "tag", el |-> i]
NoContainer == [kind |-> "None", el |-> 0]

\* the anchors of the search container, in document order
RECURSIVE AllAnchors(_, _)
AllAnchors(doc, i) ==
  IF i > Len(doc) THEN <<>> ELSE doc[i].anchors \o AllAnchors(doc, i + 1)

\* a slip: the links are taken from the whole document, whatever was selected
WholeDocumentAnchors(doc, c) ==
  IF c.kind = "None" THEN <<>> ELSE AllAnchors(doc, 1)

ContainerAnchors(doc, c) ==
  IF c.kind = "soup" THEN AllAnchors(doc, 1)
  ELSE IF c.kind = "tag" THEN doc[c.el].anchors
  ELSE <<>>

\* a slip in the scope filter: the external scope filters nothing
InScopeExternalUnfiltered(sc, is_internal) ==
  IF sc \in {"internal", "sidebar"} THEN is_internal ELSE TRUE

\* the scope filter of scrape_links
InScope(sc, is_internal) ==
  IF sc \in {"internal", "sidebar"} THEN is_internal
  ELSE IF sc = "external" THEN ~is_internal
  ELSE TRUE

\* a slip in the de-duplication: the link is added without the seen test
AddAlways(st, url, text) ==
  [seen |-> st.seen \cup {url},
   results |-> Append(st.results, [url |-> url, text |-> text])]

\* de-duplication: add the link unless its URL was seen
AddUnique(st, url, text) ==
  IF url \notin st.seen
  THEN [seen |-> st.seen \cup {url},
        results |-> Append(st.results, [url |-> url, text |-> text])]
  ELSE st

\* the scrape_links loop body once the href is normalized
KeepScrape(sc, inc_text, st, a, n, url) ==
  IF ~Truthy(n) THEN st
  ELSE IF ~InScope(sc, is_internal_url(n, url)) THEN st
  ELSE AddUnique(st, n, IF inc_text THEN a.text ELSE "")

\* the extract_links loop body once the href is normalized
KeepExtract(st, n) == IF Truthy(n) THEN AddUnique(st, n, "") ELSE st

\* one iteration of the loop over container.find_all('a', href=True)
ExtractStep(t, sc, inc_text, st, a, url) ==
  IF t = Extract
  THEN KeepExtract(st, normalize_url_extract(a.href, url, TargetOrigin(url)))
  ELSE KeepScrape(sc, inc_text, st, a, normalize_url_scrape(a.href, url, TRUE),
                  url)

\* a line of the output file
OutputLine(t, inc_text, r) ==
  IF t = Scrape /\ inc_text /\ r.text # ""
  THEN r.url \o <<" | ", r.text, "\n">>
  ELSE r.url \o <<"\n">>

\* --------------------------------------------------------- input documents
Base1 == <<"https:", "/", "/", "a", "/", "a", "/", "a">>

ManyLinks == NAV_BONUS + FewLinks

\* internal links, then an external one and a mailto that must not count
LinkRuns(n) ==
  (IF n = 0 THEN <<>> ELSE <<Anchor(<<"/", "a">>, "one", n)>>)
  \o <<Anchor(<<"/", "/", "b", "/", "a">>, "ext", 2),
       Anchor(<<"mailto:", "a">>, "mail", 1)>>

\* what the selectors see of an element
Profiles ==
  { [tag |-> "nav", aria |-> "Navigation", role |-> "navigation",
     in_aside |-> FALSE, in_sidebar_class |-> FALSE, in_sidebar_id |-> FALSE,
     idclass |-> ""],
    [tag |-> "nav", aria |-> "", role |-> "", in_aside |-> TRUE,
     in_sidebar_class |-> TRUE, in_sidebar_id |-> TRUE, idclass |-> "site-nav"],
    [tag |-> "div", aria |-> "", role |-> "", in_aside |-> FALSE,
     in_sidebar_class |-> FALSE, in_sidebar_id |-> FALSE, idclass |-> "sidebar"],
    [tag |-> "ul", aria |-> "", role |-> "", in_aside |-> FALSE,
     in_sidebar_class |-> FALSE, in_sidebar_id |-> FALSE, idclass |-> "md-nav"],
    [tag |-> "ul", aria |-> "", role |-> "", in_aside |-> FALSE,
     in_sidebar_class |-> FALSE, in_sidebar_id |-> FALSE, idclass |-> "sidenav"] }

\* what the text tests and the link counter see of an element
Contents ==
  { [on_this_page |-> FALSE, table_of_contents |-> FALSE, navigation |-> FALSE,
     anchors |-> LinkRuns(FewLinks)],
    [on_this_page |-> FALSE, table_of_contents |-> FALSE, navigation |-> FALSE,
     anchors |-> LinkRuns(ManyLinks)],
    [on_this_page |-> FALSE, table_of_contents |-> FALSE, navigation |-> TRUE,
     anchors |-> LinkRuns(0)],
    [on_this_page |-> FALSE, table_of_contents |-> FALSE, navigation |-> TRUE,
     anchors |-> LinkRuns(FewLinks)],
    [on_this_page |-> TRUE, table_of_contents |-> FALSE, navigation |-> TRUE,
     anchors |-> LinkRuns(ManyLinks + 1)],
    [on_this_page |-> FALSE, table_of_contents |-> TRUE, navigation |-> FALSE,
     anchors |-> LinkRuns(ManyLinks + 1)] }

MakeElement(p, c) ==
  Element(p.tag, p.aria, p.role, p.in_aside, p.in_sidebar_class,
          p.in_sidebar_id, p.idclass, c.on_this_page, c.table_of_contents,
          c.navigation, c.anchors)

SidebarElements == {MakeElement(p, c) : p \in Profiles, c \in Contents}
SidebarDocs == SeqsUpTo(SidebarElements, MaxElems)

\* the anchors the extraction loop is run on
LinkSet ==
  { Anchor(<<"/", "a">>, "one", 1),
    Anchor(<<"/", "a", "/">>, "two", 2),
    Anchor(<<"/", "/", "b", "/", "a">>, "ext", 1),
    Anchor(<<"mailto:", "a">>, "mail", 1),
    Anchor(<<"http:", "/", "/", "a", "/", "a">>, "", 1) }

NavElement(anchors) ==
  Element("nav", "Navigation", "navigation", FALSE, FALSE, FALSE, "",
          FALSE, FALSE, TRUE, anchors)
TocElement(anchors) ==
  Element("nav", "", "navigation", FALSE, FALSE, FALSE, "",
          TRUE, FALSE, FALSE, anchors)
PlainElement(anchors) ==
  Element("div", "", "", FALSE, FALSE, FALSE, "", FALSE, FALSE, FALSE, anchors)

\* a navigation block followed by the rest of the page
LoopDocs ==
  { <<NavElement(l1), PlainElement(l2)>> :
      l1 \in SeqsUpTo(LinkSet, MaxRuns), l2 \in SeqsUpTo(LinkSet, 1) }

\* pages of whole runs: a sidebar and a body, a lone table of contents,
\* a page without any sidebar candidate
RunDocs ==
  { <<NavElement(<<Anchor(<<"/", "a">>, "one", 1),
                   Anchor(<<"/", "a", "/">>, "two", 1),
                   Anchor(<<"/", "b">>, "three", 1)>>),
      PlainElement(<<Anchor(<<"/", "/", "b", "/", "a">>, "ext", 1),
                     Anchor(<<"mailto:", "a">>, "mail", 1)>>)>>,
    <<Element("div", "", "", FALSE, FALSE, FALSE, "sidebar",
              FALSE, FALSE, FALSE,
              <<Anchor(<<"/", "b", "/", "a">>, "body", FewLinks),
                Anchor(<<"/", "a">>, "one", 1)>>),
      NavElement(<<Anchor(<<"/", "a">>, "one", 1),
                   Anchor(<<"/", "/", "b", "/", "a">>, "ext", 1),
                   Anchor(<<"/", "b">>, "three", 1),
                   Anchor(<<"/", "a", "/">>, "two", 1)>>)>>,
    <<TocElement(<<Anchor(<<"/", "a">>, "one", 1)>>)>>,
    <<PlainElement(<<Anchor(<<"/", "a">>, "one", 1),
                     Anchor(<<"/", "/", "b", "/", "a">>, "ext", 1)>>)>> }

\* the output file before the run
Absent == [exists |-> FALSE, lines |-> <<>>]
OldFile == [exists |-> TRUE, lines |-> <<<<"old", "\n">>>>]

Scopes == {"all", "internal", "external", "sidebar"}
EmptyLoop == [seen |-> {}, results |-> <<>>]

\* ------------------------------------------------------------------ state
VARIABLES
  tool, start_url, page,
  strip, href, other, normalized, renormalized, normalized_other, npc,
  candidates, scored_candidates, best, spc, k,
  scope, include_text, js, selenium, has_dir, dir0, file0,
  use_js, pc, browser, gets, http_outcome, html, stderr, ret,
  container, loop, ai, aj,
  dir_exists, file, wi,
  by_scope

sharedVars == <<tool, start_url, page>>
normVars == <<strip, href, other, normalized, renormalized, normalized_other,
              npc>>
sbVars == <<candidates, scored_candidates, best, spc, k>>
cfgVars == <<scope, include_text, js, selenium, has_dir, dir0, file0>>
fetchVars == <<use_js, browser, gets, http_outcome, html>>
loopVars == <<container, loop, ai, aj>>
fsVars == <<dir_exists, file, wi>>

vars == <<sharedVars, normVars, sbVars, cfgVars, fetchVars, pc, stderr, ret,
          loopVars, fsVars, by_scope>>

runAll == <<cfgVars, fetchVars, pc, stderr, ret, loopVars, fsVars, by_scope>>

NormIdle ==
  /\ strip = TRUE /\ href = <<>> /\ other = <<>> /\ normalized = None
  /\ renormalized = None /\ normalized_other = None /\ npc = "idle"

SbIdle ==
  /\ candidates = <<>> /\ scored_candidates = <<>> /\ best = -1
  /\ spc = "idle" /\ k = 0

CfgIdle ==
  /\ scope = "all" /\ include_text = FALSE /\ js = FALSE /\ selenium = FALSE
  /\ has_dir = FALSE /\ dir0 = TRUE /\ file0 = Absent

FetchIdle ==
  /\ use_js = FALSE /\ browser = "none" /\ gets = 0 /\ http_outcome = "none"
  /\ html = "None"

LoopIdle ==
  /\ container = NoContainer /\ loop = EmptyLoop /\ ai = 1 /\ aj = 1

FsIdle == dir_exists = TRUE /\ file = Absent /\ wi = 1

ProdIdle == by_scope = <<>>

RunIdle ==
  /\ CfgIdle /\ FetchIdle /\ LoopIdle /\ FsIdle /\ ProdIdle
  /\ pc = "idle" /\ stderr = {} /\ ret = "none"

\* ---------------------------------------- normalize_url as a pure function
NormInit ==
  /\ tool \in Tools
  /\ start_url \in Bases
  /\ page = <<>>
  /\ strip \in (IF tool = Extract THEN {TRUE} ELSE BOOLEAN)
  /\ href \in Hrefs
  /\ other = <<>>
  /\ normalized = None
  /\ renormalized = None
  /\ normalized_other = None
  /\ npc = "start"
  /\ SbIdle
  /\ RunIdle

Normalize ==
  /\ npc = "start"
  /\ normalized' = NormalizeFor(tool, href, start_url, strip)
  /\ npc' = "once"
  /\ UNCHANGED <<sharedVars, sbVars, runAll, strip, href, other, renormalized,
                 normalized_other>>

Renormalize ==
  /\ npc = "once"
  /\ normalized # None
  /\ renormalized' = NormalizeFor(tool, normalized, start_url, strip)
  /\ npc' = "twice"
  /\ UNCHANGED <<sharedVars, sbVars, runAll, strip, href, other, normalized,
                 normalized_other>>

NormalizeOther ==
  /\ npc = "once"
  /\ \E n \in 0..MaxSlashes :
       /\ other' = SlashVariant(href, n)
       /\ normalized_other' = NormalizeFor(tool, other', start_url, strip)
  /\ npc' = "pair"
  /\ UNCHANGED <<sharedVars, sbVars, runAll, strip, href, normalized, renormalized>>

NormNext == Normalize \/ Renormalize \/ NormalizeOther

SpecNorm == NormInit /\ [][NormNext]_vars

\* ------------------------------------- find_sidebar_container, step by step
SbInit ==
  /\ tool \in Tools
  /\ start_url = Base1
  /\ page \in SidebarDocs
  /\ NormIdle
  /\ candidates = <<>>
  /\ scored_candidates = <<>>
  /\ best = -1
  /\ spc = "select"
  /\ k = 1
  /\ RunIdle

\* one selector strategy: append every element it matches
TrySelector ==
  /\ spc = "select"
  /\ k <= Len(selector_strategies(tool))
  /\ candidates' = SelectStep(candidates, page, selector_strategies(tool)[k])
  /\ IF k = Len(selector_strategies(tool))
     THEN spc' = "scan" /\ k' = 1
     ELSE spc' = spc /\ k' = k + 1
  /\ UNCHANGED <<sharedVars, normVars, runAll, scored_candidates, best>>

\* one tag of the id/class scan
ScanTag ==
  /\ spc = "scan"
  /\ k <= Len(page)
  /\ candidates' = ScanStep(candidates, page, k, tool)
  /\ k' = k + 1
  /\ UNCHANGED <<sharedVars, normVars, runAll, scored_candidates, best, spc>>

\* if not candidates: return None
CheckCandidates ==
  /\ spc = "scan"
  /\ k > Len(page)
  /\ IF candidates = <<>>
     THEN best' = 0 /\ spc' = "done"
     ELSE best' = best /\ spc' = "score"
  /\ k' = 1
  /\ UNCHANGED <<sharedVars, normVars, runAll, candidates, scored_candidates>>

\* one candidate of the filter-and-score loop
ScoreCandidate ==
  /\ spc = "score"
  /\ k <= Len(candidates)
  /\ scored_candidates' =
       ScoreStep(scored_candidates, candidates[k], page, tool, start_url)
  /\ k' = k + 1
  /\ UNCHANGED <<sharedVars, normVars, runAll, candidates, best, spc>>

\* if not scored_candidates: return None; else sort and return the first
SortAndPick ==
  /\ spc = "score"
  /\ k > Len(candidates)
  /\ scored_candidates' = SortDesc(scored_candidates)
  /\ best' = PickBest(scored_candidates)
  /\ spc' = "done"
  /\ UNCHANGED <<sharedVars, normVars, runAll, candidates, k>>

SbNext ==
  TrySelector \/ ScanTag \/ CheckCandidates \/ ScoreCandidate \/ SortAndPick

SpecSidebar == SbInit /\ [][SbNext]_vars

\* ------------------------------------------------------- a run of a tool
NeedsSidebar == tool = Extract \/ scope = "sidebar"

RunInit ==
  /\ tool \in Tools
  /\ start_url = Base1
  /\ page \in RunDocs
  /\ NormIdle
  /\ SbIdle
  /\ scope \in (IF tool = Extract THEN {"sidebar"} ELSE Scopes)
  /\ include_text \in (IF tool = Extract THEN {FALSE} ELSE BOOLEAN)
  /\ js \in (IF tool = Extract THEN {FALSE} ELSE BOOLEAN)
  /\ selenium \in (IF js THEN BOOLEAN ELSE {FALSE})
  /\ has_dir \in BOOLEAN
  /\ dir0 \in (IF has_dir THEN BOOLEAN ELSE {TRUE})
  /\ file0 \in (IF dir0 THEN {Absent, OldFile} ELSE {Absent})
  /\ use_js = js
  /\ browser = "none"
  /\ gets = 0
  /\ http_outcome = "none"
  /\ html = "None"
  /\ pc = "fetch"
  /\ stderr = {}
  /\ ret = "none"
  /\ LoopIdle
  /\ dir_exists = dir0
  /\ file = file0
  /\ wi = 1
  /\ ProdIdle

\* return 1 from the run
Return1(msg) ==
  /\ stderr' = stderr \cup {msg}
  /\ ret' = "1"
  /\ pc' = "done"

\* a slip in the fallback: a rendering failure makes fetch_page_html give up
SeleniumAbort(msg) ==
  /\ stderr' = stderr \cup {msg}
  /\ use_js' = FALSE
  /\ html' = "None"
  /\ ret' = "1"
  /\ pc' = "done"

\* the fallback of fetch_page_html: report, clear use_js, go on to the
\* standard HTTP request
SeleniumFallback(msg) ==
  /\ stderr' = stderr \cup {msg}
  /\ use_js' = FALSE
  /\ html' = html
  /\ ret' = ret
  /\ pc' = "fetch"

\* if use_js and not SELENIUM_AVAILABLE
SeleniumMissing ==
  /\ pc = "fetch" /\ use_js /\ ~selenium
  /\ SeleniumFallback("selenium_missing")
  /\ UNCHANGED <<sharedVars, normVars, sbVars, cfgVars, browser, gets,
                 http_outcome, loopVars, fsVars, by_scope>>

\* driver = webdriver.Chrome(options=options)
LaunchChrome ==
  /\ pc = "fetch" /\ use_js /\ selenium
  /\ \E ok \in BOOLEAN :
       IF ok
       THEN /\ browser' = "running"
            /\ pc' = "driver_get"
            /\ UNCHANGED <<stderr, use_js, html, ret>>
       ELSE /\ browser' = browser
            /\ SeleniumFallback("selenium_failed")
  /\ UNCHANGED <<sharedVars, normVars, sbVars, cfgVars, gets, http_outcome,
                 loopVars, fsVars, by_scope>>

\* driver.get(url); time.sleep(wait_time)
DriverGet ==
  /\ pc = "driver_get"
  /\ \E ok \in BOOLEAN :
       IF ok
       THEN pc' = "page_source" /\ UNCHANGED <<stderr, use_js, html, ret>>
       ELSE SeleniumFallback("selenium_failed")
  /\ UNCHANGED <<sharedVars, normVars, sbVars, cfgVars, browser, gets,
                 http_outcome, loopVars, fsVars, by_scope>>

\* html = driver.page_source
PageSource ==
  /\ pc = "page_source"
  /\ \E ok \in BOOLEAN :
       IF ok
       THEN pc' = "quit" /\ UNCHANGED <<stderr, use_js, html, ret>>
       ELSE SeleniumFallback("selenium_failed")
  /\ UNCHANGED <<sharedVars, normVars, sbVars, cfgVars, browser, gets,
                 http_outcome, loopVars, fsVars, by_scope>>

\* driver.quit(); return html
DriverQuit ==
  /\ pc = "quit"
  /\ \E ok \in BOOLEAN :
       IF ok
       THEN /\ browser' = "quit"
            /\ html' = "rendered"
            /\ pc' = "parse"
            /\ UNCHANGED <<stderr, use_js, ret>>
       ELSE /\ browser' = browser
            /\ SeleniumFallback("selenium_failed")
  /\ UNCHANGED <<sharedVars, normVars, sbVars, cfgVars, gets, http_outcome,
                 loopVars, fsVars, by_scope>>

HttpOutcomes == {"ok", "timeout", "connection", "http_error", "request_failed"}

\* requests.get(...); response.raise_for_status()
HttpGet ==
  /\ pc = "fetch" /\ ~use_js
  /\ gets' = gets + 1
  /\ \E outcome \in HttpOutcomes :
       /\ http_outcome' = outcome
       /\ IF outcome = "ok"
          THEN html' = "response" /\ pc' = "parse" /\ UNCHANGED <<stderr, ret>>
          ELSE html' = "None" /\ Return1(outcome)
  /\ UNCHANGED <<sharedVars, normVars, sbVars, cfgVars, use_js, browser,
                 loopVars, fsVars, by_scope>>

\* soup = BeautifulSoup(html, 'html.parser'); the non-sidebar scopes search it
Parse ==
  /\ pc = "parse"
  /\ IF NeedsSidebar
     THEN pc' = "sidebar" /\ container' = container
     ELSE pc' = "loop" /\ container' = Soup
  /\ UNCHANGED <<sharedVars, normVars, sbVars, cfgVars, fetchVars, stderr, ret,
                 loop, ai, aj, fsVars, by_scope>>

\* a slip: with no sidebar found the run goes on with the whole document
SidebarMissingUseSoup ==
  /\ container' = Soup
  /\ pc' = "loop"
  /\ UNCHANGED <<stderr, ret>>

\* if container is None: report and return 1
SidebarMissing ==
  /\ container' = NoContainer
  /\ Return1("no_sidebar")

\* container = find_sidebar_container(soup, url, ...)
FindSidebar ==
  /\ pc = "sidebar"
  /\ candidates' = FindCandidates(page, tool)
  /\ scored_candidates' =
       SortDesc(ScoreAll(<<>>, candidates', 1, page, tool, start_url))
  /\ best' = find_sidebar_container(page, tool, start_url)
  /\ IF best' = 0
     THEN SidebarMissing
     ELSE container' = TagAt(best') /\ pc' = "loop" /\ UNCHANGED <<stderr, ret>>
  /\ UNCHANGED <<sharedVars, normVars, spc, k, cfgVars, fetchVars, loop, ai, aj,
                 fsVars, by_scope>>

LoopDone == ai > Len(ContainerAnchors(page, container))

\* one <a href> of the extraction loop
LoopStep ==
  /\ pc = "loop"
  /\ ~LoopDone
  /\ loop' = ExtractStep(tool, scope, include_text, loop,
                         ContainerAnchors(page, container)[ai], start_url)
  /\ IF aj < ContainerAnchors(page, container)[ai].reps
     THEN ai' = ai /\ aj' = aj + 1
     ELSE ai' = ai + 1 /\ aj' = 1
  /\ UNCHANGED <<sharedVars, normVars, sbVars, cfgVars, fetchVars, pc, stderr,
                 ret, container, fsVars, by_scope>>

\* output_dir = os.path.dirname(output_file); os.makedirs(..., exist_ok=True)
\* is outside the try block: an OSError leaves the function as an exception
MakeDirs ==
  /\ pc = "loop"
  /\ LoopDone
  /\ IF has_dir /\ ~dir_exists
     THEN \E ok \in BOOLEAN :
            IF ok
            THEN dir_exists' = TRUE /\ pc' = "open" /\ UNCHANGED <<stderr, ret>>
            ELSE /\ dir_exists' = dir_exists
                 /\ stderr' = stderr \cup {"traceback"}
                 /\ ret' = "exception"
                 /\ pc' = "done"
     ELSE dir_exists' = dir_exists /\ pc' = "open" /\ UNCHANGED <<stderr, ret>>
  /\ UNCHANGED <<sharedVars, normVars, sbVars, cfgVars, fetchVars, loopVars,
                 file, wi, by_scope>>

\* open(output_file, 'w', encoding='utf-8'): truncates the file
OpenFile ==
  /\ pc = "open"
  /\ \E ok \in BOOLEAN :
       IF ok
       THEN /\ file' = [exists |-> TRUE, lines |-> <<>>]
            /\ pc' = "write"
            /\ UNCHANGED <<stderr, ret>>
       ELSE file' = file /\ Return1("write_failed")
  /\ wi' = 1
  /\ UNCHANGED <<sharedVars, normVars, sbVars, cfgVars, fetchVars, loopVars,
                 dir_exists, by_scope>>

\* f.write(...) for one result
WriteLine ==
  /\ pc = "write"
  /\ wi <= Len(loop.results)
  /\ \E ok \in BOOLEAN :
       IF ok
       THEN /\ file' = [file EXCEPT !.lines =
                          Append(@, OutputLine(tool, include_text,
                                               loop.results[wi]))]
            /\ wi' = wi + 1
            /\ UNCHANGED <<pc, stderr, ret>>
       ELSE file' = file /\ wi' = wi /\ Return1("write_failed")
  /\ UNCHANGED <<sharedVars, normVars, sbVars, cfgVars, fetchVars, loopVars,
                 dir_exists, by_scope>>

\* leaving the with block closes the file; then return 0
CloseFile ==
  /\ pc = "write"
  /\ wi > Len(loop.results)
  /\ \E ok \in BOOLEAN :
       IF ok
       THEN ret' = "0" /\ pc' = "done" /\ stderr' = stderr
       ELSE Return1("write_failed")
  /\ UNCHANGED <<sharedVars, normVars, sbVars, cfgVars, fetchVars, loopVars,
                 fsVars, by_scope>>

Next ==
  \/ SeleniumMissing \/ LaunchChrome \/ DriverGet \/ PageSource \/ DriverQuit
  \/ HttpGet \/ Parse \/ FindSidebar \/ LoopStep
  \/ MakeDirs \/ OpenFile \/ WriteLine \/ CloseFile

Spec == RunInit /\ [][Next]_vars

\* ------------------------- the extraction of a run, from the fetched page on
LoopInit ==
  /\ tool \in Tools
  /\ start_url = Base1
  /\ page \in LoopDocs
  /\ NormIdle
  /\ SbIdle
  /\ scope \in (IF tool = Extract THEN {"sidebar"} ELSE Scopes)
  /\ include_text \in (IF tool = Extract THEN {FALSE} ELSE BOOLEAN)
  /\ js = FALSE /\ selenium = FALSE
  /\ has_dir = FALSE /\ dir0 = TRUE /\ file0 = Absent
  /\ use_js = FALSE /\ browser = "none" /\ gets = 1 /\ http_outcome = "ok"
  /\ html = "response"
  /\ pc = "parse"
  /\ stderr = {}
  /\ ret = "none"
  /\ LoopIdle
  /\ FsIdle
  /\ ProdIdle

LoopNext == Parse \/ FindSidebar \/ LoopStep

SpecLoop == LoopInit /\ [][LoopNext]_vars

\* ------- the loop of scrape_links run on one page under three scopes at once
ProductScopes == {"all", "internal", "external"}

ScopeInit ==
  /\ tool = Scrape
  /\ start_url = Base1
  /\ page \in LoopDocs
  /\ NormIdle
  /\ SbIdle
  /\ scope = "all" /\ include_text \in BOOLEAN /\ js = FALSE
  /\ selenium = FALSE /\ has_dir = FALSE /\ dir0 = TRUE /\ file0 = Absent
  /\ FetchIdle
  /\ pc = "loop"
  /\ stderr = {}
  /\ ret = "none"
  /\ container = Soup /\ loop = EmptyLoop /\ ai = 1 /\ aj = 1
  /\ FsIdle
  /\ by_scope = [sc \in ProductScopes |-> EmptyLoop]

\* the same <a href> taken by the three loops
ScopeStep ==
  /\ pc = "loop"
  /\ ~LoopDone
  /\ by_scope' =
       [sc \in ProductScopes |->
          ExtractStep(tool, sc, include_text, by_scope[sc],
                      ContainerAnchors(page, container)[ai], start_url)]
  /\ IF aj < ContainerAnchors(page, container)[ai].reps
     THEN ai' = ai /\ aj' = aj + 1
     ELSE ai' = ai + 1 /\ aj' = 1
  /\ UNCHANGED <<sharedVars, normVars, sbVars, cfgVars, fetchVars, pc, stderr,
                 ret, container, loop, fsVars>>

SpecScope == ScopeInit /\ [][ScopeStep]_vars

\* ================================================================== claims
\* the phrases that mark a table-of-contents widget, as the claim reads them
HasTocPhrase(t, el) ==
  el.on_this_page \/ (t = Scrape /\ el.table_of_contents)

\* C1: find_sidebar_container never returns a candidate whose text contains
\* "on this page" (scrape_links: or "table of contents"), whatever its link
\* count and whether or not it also says "navigation"; such a candidate never
\* enters the scored list.
C1_ExclusionPrecedence ==
  /\ \A i \in 1..Len(scored_candidates) :
       ~HasTocPhrase(tool, page[scored_candidates[i].el])
  /\ best > 0 => ~HasTocPhrase(tool, page[best])

\* a finished selection that returned an element although an excluded
\* candidate saying "navigation" would have scored above the winner
C1_Witness ==
  /\ spc = "done"
  /\ best > 0
  /\ \E i \in 1..Len(candidates) :
       /\ HasTocPhrase(tool, page[candidates[i].el])
       /\ page[candidates[i].el].navigation
       /\ ScoreOf(tool, page[candidates[i].el], start_url)
            > scored_candidates[1].score

\* C2: among the survivors a candidate saying "navigation" is selected over
\* every candidate that does not, for any link counts.
C2_NavigationOutranks ==
  (/\ spc = "done"
   /\ best > 0
   /\ \E i \in 1..Len(scored_candidates) :
        page[scored_candidates[i].el].navigation)
  => page[best].navigation

\* the absolute URL an href resolves to, parsed
Resolved(h) == urlparse(urljoin(start_url, h), "")

\* C5: normalize_url is idempotent: applied to a URL it returned, with the
\* same base, origin and options, it returns that URL again.
C5_NormalizeIdempotent ==
  npc = "twice" => renormalized = normalized

\* C6: two accepted hrefs whose resolved URLs agree in scheme, host and query
\* and whose paths differ only in trailing slashes normalize to the same
\* value; a resolved path "/" stays "/" and no other returned path ends in "/".
C6_TrailingSlashPolicy ==
  /\ (/\ npc = "pair"
      /\ normalized # None
      /\ normalized_other # None
      /\ Resolved(href).scheme = Resolved(other).scheme
      /\ Resolved(href).netloc = Resolved(other).netloc
      /\ Resolved(href).query = Resolved(other).query
      /\ RStripSlash(Resolved(href).path) = RStripSlash(Resolved(other).path))
     => normalized = normalized_other
  /\ (npc = "once" /\ normalized # None)
     => IF Resolved(href).path = <<"/">>
        THEN urlsplit(normalized, "").path = <<"/">>
        ELSE LET p == urlsplit(normalized, "").path
             IN p = <<>> \/ p[Len(p)] # "/"

\* C7: normalize_url of either tool returns None for every href whose
\* resolved URL has a scheme other than http or https, also when its host is
\* the target origin's host.
C7_SchemeRejection ==
  (npc = "once" /\ Resolved(href).scheme \notin {"http:", "https:"})
  => normalized = None

\* whether a normalized URL is on the host of the page
OnPageHost(u) == urlsplit(u, "").netloc = urlsplit(start_url, "").netloc

\* the URL the loop of this run keeps for an anchor; None if it skips it
KeptURL(a) ==
  IF tool = Extract
  THEN (IF Truthy(NormalizeFor(Extract, a.href, start_url, TRUE))
        THEN NormalizeFor(Extract, a.href, start_url, TRUE) ELSE None)
  ELSE IF ~Truthy(NormalizeFor(Scrape, a.href, start_url, TRUE)) THEN None
  ELSE IF scope \in {"internal", "sidebar"}
          /\ ~OnPageHost(NormalizeFor(Scrape, a.href, start_url, TRUE))
  THEN None
  ELSE IF scope = "external"
          /\ OnPageHost(NormalizeFor(Scrape, a.href, start_url, TRUE))
  THEN None
  ELSE NormalizeFor(Scrape, a.href, start_url, TRUE)

\* the anchors of the container and the runs of them the loop has entered
LoopAnchors == ContainerAnchors(page, container)
Taken == {r \in 1..Len(LoopAnchors) : r < ai \/ (r = ai /\ aj > 1)}

\* the first taken anchor that gives URL u
FirstOf(u) ==
  CHOOSE r \in Taken :
    /\ KeptURL(LoopAnchors[r]) = u
    /\ \A q \in Taken : q < r => KeptURL(LoopAnchors[q]) # u

\* C3: throughout the extraction loop the results hold each normalized URL at
\* most once, every in-scope normalized URL seen so far exactly once, in the
\* order of first occurrence, with the display text of that first occurrence
\* (the empty text when text is not collected); seen_urls is the set of the
\* URLs of the results.
C3_Deduplication ==
  pc = "loop" =>
    /\ loop.seen = {loop.results[i].url : i \in DOMAIN loop.results}
    /\ \A i, j \in DOMAIN loop.results :
         loop.results[i].url = loop.results[j].url => i = j
    /\ loop.seen = {KeptURL(LoopAnchors[r]) : r \in Taken} \ {None}
    /\ \A i, j \in DOMAIN loop.results :
         i < j => FirstOf(loop.results[i].url) < FirstOf(loop.results[j].url)
    /\ \A i \in DOMAIN loop.results :
         loop.results[i].text =
           IF tool = Scrape /\ include_text
           THEN LoopAnchors[FirstOf(loop.results[i].url)].text ELSE ""

\* a finished loop that met one URL under two hrefs with different texts
C3_Witness ==
  /\ pc = "loop" /\ LoopDone
  /\ include_text
  /\ Len(loop.results) >= 2
  /\ \E r1, r2 \in 1..Len(LoopAnchors) :
       /\ r1 < r2
       /\ KeptURL(LoopAnchors[r1]) # None
       /\ KeptURL(LoopAnchors[r1]) = KeptURL(LoopAnchors[r2])
       /\ LoopAnchors[r1].href # LoopAnchors[r2].href
       /\ LoopAnchors[r1].text # LoopAnchors[r2].text

ResultURLs(st) == {st.results[i].url : i \in DOMAIN st.results}

\* C4: on one page the internal and external outputs split the all output:
\* no URL is in both, together they hold exactly the URLs of the all output,
\* and each is the all output filtered by host match, in the same order.
C4_ScopePartition ==
  /\ ResultURLs(by_scope["internal"]) \cap ResultURLs(by_scope["external"]) = {}
  /\ ResultURLs(by_scope["internal"]) \cup ResultURLs(by_scope["external"])
       = ResultURLs(by_scope["all"])
  /\ by_scope["internal"].results
       = SelectSeq(by_scope["all"].results, LAMBDA r : OnPageHost(r.url))
  /\ by_scope["external"].results
       = SelectSeq(by_scope["all"].results, LAMBDA r : ~OnPageHost(r.url))

\* the three loops finished on a page with internal and external links
C4_Witness ==
  /\ LoopDone
  /\ Len(by_scope["internal"].results) >= 2
  /\ Len(by_scope["external"].results) >= 1
  /\ Len(by_scope["all"].results) >= 3

Untouched == dir_exists = dir0 /\ file = file0
FetchFailed == http_outcome \notin {"none", "ok"}
NoSurvivor ==
  NeedsSidebar /\ html # "None"
  /\ find_sidebar_container(page, tool, start_url) = 0

\* C8: until fetch, parse, sidebar selection and link extraction are done no
\* directory is created and the output file is not touched; a run whose fetch
\* failed, or that needed a sidebar and found no surviving candidate, returns
\* 1 and leaves the directory and the file as they were.
C8_ErrorsBeforeOutput ==
  /\ pc \in {"fetch", "driver_get", "page_source", "quit", "parse", "sidebar",
             "loop"} => Untouched
  /\ (pc = "done" /\ (FetchFailed \/ NoSurvivor)) => (ret = "1" /\ Untouched)

\* a sidebar-scoped run over an existing output file that ended with the
\* "no sidebar" error
C8_Witness ==
  /\ pc = "done" /\ NoSurvivor /\ "no_sidebar" \in stderr
  /\ file0 = OldFile /\ ret = "1"

\* C9: every run that ends with a non-zero status or an error leaves the
\* output file absent or with its previous content, and every output failure
\* is reported and returned as a non-zero status.
C9_NoPartialOutput ==
  (pc = "done" /\ ret # "0")
  => /\ file = file0
     /\ stderr # {}

RenderFailed == stderr \cap {"selenium_missing", "selenium_failed"} # {}

\* C10: with rendering requested, once fetch_page_html has returned: if the
\* browser was unavailable or a step of it failed, exactly one HTTP GET was
\* issued and its outcome was returned (the response text, or None and the
\* run returns 1), and a run whose GET succeeded does not fail for the fetch;
\* if rendering succeeded no GET was issued and the rendered HTML returned.
C10_RenderingFallback ==
  (tool = Scrape /\ js
   /\ pc \notin {"fetch", "driver_get", "page_source", "quit"})
  => IF RenderFailed
     THEN /\ gets = 1
          /\ http_outcome = "ok" => html = "response"
          /\ http_outcome # "ok"
               => (html = "None" /\ ret = "1" /\ http_outcome \in stderr)
          /\ (http_outcome = "ok" /\ ret # "none" /\ ret # "0")
               => stderr \cap {"no_sidebar", "write_failed", "traceback"} # {}
     ELSE gets = 0 /\ html = "rendered"

\* a run whose browser failed after its launch, fell back to one GET and
\* ended with status 0
C10_Witness ==
  /\ js /\ "selenium_failed" \in stderr /\ browser = "running"
  /\ gets = 1 /\ html = "response" /\ pc = "done" /\ ret = "0"

\* the truthy normalized URLs of a sequence of anchors that are on the host
\* of the page, in document order
RECURSIVE OriginMatching(_)
OriginMatching(anchors) ==
  IF anchors = <<>> THEN <<>>
  ELSE (IF /\ Truthy(NormalizeFor(tool, Head(anchors).href, start_url, TRUE))
           /\ OnPageHost(NormalizeFor(tool, Head(anchors).href, start_url,
                                      TRUE))
        THEN <<NormalizeFor(tool, Head(anchors).href, start_url, TRUE)>>
        ELSE <<>>)
       \o OriginMatching(Tail(anchors))

\* a sequence without the later occurrences of its elements
RECURSIVE FirstSeen(_)
FirstSeen(urls) ==
  IF urls = <<>> THEN <<>>
  ELSE <<Head(urls)>>
       \o SelectSeq(FirstSeen(Tail(urls)), LAMBDA u : u # Head(urls))

\* the URL of a line of the output file
LineURL(line) == Take(line, Find(line, {" | ", "\n"}) - 1)

\* C11: a sidebar-scoped run that returns 0 has selected a container and has
\* written, one per line and in document order, the first occurrences of the
\* normalized URLs on the page's host of the anchors inside the element that
\* find_sidebar_container returned, and nothing else.
C11_SidebarOutput ==
  (pc = "done" /\ ret = "0" /\ NeedsSidebar)
  => /\ best \in 1..Len(page)
     /\ file.exists
     /\ [i \in 1..Len(file.lines) |-> LineURL(file.lines[i])]
          = FirstSeen(OriginMatching(page[best].anchors))

\* a successful sidebar-scoped run on a page whose selected block repeats a
\* URL and holds an external link, and whose other block holds an internal
\* link that is not in the selected block
C11_Witness ==
  /\ pc = "done" /\ ret = "0" /\ NeedsSidebar
  /\ best = 2
  /\ Len(file.lines) = 2
  /\ Len(OriginMatching(page[2].anchors)) = 3
  /\ \E i \in 1..Len(page[1].anchors) :
       LET u == NormalizeFor(tool, page[1].anchors[i].href, start_url, TRUE)
       IN /\ Truthy(u) /\ OnPageHost(u)
          /\ \A j \in 1..Len(file.lines) : LineURL(file.lines[j]) # u

\* the candidate positions whose element is not excluded
Survivors ==
  {c \in 1..Len(candidates) : ~HasTocPhrase(tool, page[candidates[c].el])}

\* the score the rule gives an element: 100 for the word, plus its links
RuleScore(el) ==
  (IF el.navigation THEN 100 ELSE 0)
  + count_internal_links(tool, el.anchors, start_url)

\* C12: a finished find_sidebar_container has returned None exactly when there
\* is no candidate or every candidate is excluded; otherwise it has returned
\* the surviving candidate of maximal score (100 for "navigation" plus the
\* internal-link count) that comes first in the candidate order.
C12_SelectionRule ==
  spc = "done" =>
    /\ best = 0 <=> Survivors = {}
    /\ best # 0 =>
         \E c \in Survivors :
           /\ candidates[c].el = best
           /\ \A d \in Survivors :
                /\ RuleScore(page[candidates[d].el]) <= RuleScore(page[best])
                /\ RuleScore(page[candidates[d].el]) = RuleScore(page[best])
                     => c <= d

\* a finished selection in which two different survivors share the maximal
\* score and the one returned is first in candidate order though later in
\* the document
C12_Witness ==
  /\ spc = "done"
  /\ best = 2
  /\ Len(candidates) = 2
  /\ candidates[1].el = 2 /\ candidates[2].el = 1
  /\ Survivors = {1, 2}
  /\ RuleScore(page[1]) = RuleScore(page[2])
  /\ page[1].navigation # page[2].navigation

\* C13: at every step of the Finder the candidate sequence holds each element
\* of the document at most once.
C13_CandidatesDistinct ==
  \A i, j \in 1..Len(candidates) :
    candidates[i].el = candidates[j].el => i = j

\* C14: once fetch_page_html has returned, every browser it launched has been
\* quit: no later point of a run, its end included, has a launched browser
\* that was never quit.
C14_BrowserReleased ==
  pc \notin {"fetch", "driver_get", "page_source", "quit"}
  => browser # "running"

====
